---- MODULE Spec2Model ----
(***************************************************************************)
(* State-machine model of workers/atc_thermometer.py (Atc_ThermometerWorker *)
(* and AtcThermometerStatus) and of workers/base.py (BaseWorker).           *)
(*                                                                         *)
(* Representation of Python values:                                        *)
(*  - a str that the code slices, lowercases, title-cases or parses (a MAC, *)
(*    an advertisement text, a device name, a field name) is a sequence of  *)
(*    one-character strings;                                               *)
(*  - a str that the code only builds by concatenation or format() is a     *)
(*    record of its parts (a topic is [prefix, name, leaf], read            *)
(*    prefix "/" name "/" leaf);                                           *)
(*  - None is the empty sequence <<>> where a device record is expected;    *)
(*  - temperature (int / 10, a float) is kept as the integer number of      *)
(*    tenths of a degree;                                                  *)
(*  - the dict autoconfCache, whose values are all True, is its key set.    *)
(***************************************************************************)
EXTENDS Integers, Sequences, FiniteSets, TLC

\* The clock (time.time(), in ticks) stops the model at MaxTime: at most
\* MaxTime update cycles in one behaviour.
MaxTime == 3

(***************************************************************************)
(* Python str operations used by the code                                  *)
(***************************************************************************)
LowerChars == <<"a","b","c","d","e","f","g","h","i","j","k","l","m","n","o","p","q","r","s","t","u","v","w","x","y","z">>

UpperChars == <<"A","B","C","D","E","F","G","H","I","J","K","L","M","N","O","P","Q","R","S","T","U","V","W","X","Y","Z">>

HexChars == <<"0","1","2","3","4","5","6","7","8","9","a","b","c","d","e","f">>

IsLower(c) == \E i \in 1..Len(LowerChars) : LowerChars[i] = c

IsUpper(c) == \E i \in 1..Len(UpperChars) : UpperChars[i] = c

IsCased(c) == IsLower(c) \/ IsUpper(c)

\* str.lower() on one character
LowerChar(c) ==
  IF IsUpper(c) THEN LowerChars[CHOOSE i \in 1..Len(UpperChars) : UpperChars[i] = c] ELSE c

\* str.upper() on one character
UpperChar(c) ==
  IF IsLower(c) THEN UpperChars[CHOOSE i \in 1..Len(LowerChars) : LowerChars[i] = c] ELSE c

\* str.lower()
lower(s) == [i \in 1..Len(s) |-> LowerChar(s[i])]

\* str.title(): a cased character is upper-cased when it follows an uncased
\* one (or starts the string) and lower-cased otherwise
title(s) ==
  [i \in 1..Len(s) |->
     IF ~IsCased(s[i]) THEN s[i]
     ELSE IF i > 1 /\ IsCased(s[i-1]) THEN LowerChar(s[i]) ELSE UpperChar(s[i])]

\* str.capitalize(): first character upper-cased, the rest lower-cased
capitalize(s) ==
  [i \in 1..Len(s) |-> IF i = 1 THEN UpperChar(s[i]) ELSE LowerChar(s[i])]

\* str.replace(old, new, count) for a one-character old; count < 0 replaces
\* every occurrence (the default), count >= 0 only the first count ones
RECURSIVE replace(_, _, _, _)
replace(s, old, new, count) ==
  IF s = <<>> THEN <<>>
  ELSE IF Head(s) = old /\ count # 0
       THEN new \o replace(Tail(s), old, new, IF count < 0 THEN count ELSE count - 1)
       ELSE <<Head(s)>> \o replace(Tail(s), old, new, count)

\* the slice s[a:b] for 0 <= a <= b: never raises, cut at the end of s
Slice(s, a, b) ==
  LET hi == IF b < Len(s) THEN b ELSE Len(s)
  IN IF a >= hi THEN <<>> ELSE SubSeq(s, a + 1, hi)

\* the value of one hexadecimal digit, -1 for any other character
HexDigit(c) ==
  LET lc == LowerChar(c)
  IN IF \E i \in 1..16 : HexChars[i] = lc
     THEN (CHOOSE i \in 1..16 : HexChars[i] = lc) - 1
     ELSE -1

RECURSIVE HexValue(_, _)
HexValue(s, acc) ==
  IF s = <<>> THEN acc ELSE HexValue(Tail(s), 16 * acc + HexDigit(Head(s)))

\* ValueError of int(s, 16) is the result -1
ValueError == -1

\* int(s, 16): the unsigned value of the digits; ValueError for the empty
\* string and for a string with a character that is no hexadecimal digit
int16(s) ==
  IF s = <<>> \/ \E i \in 1..Len(s) : HexDigit(s[i]) < 0
  THEN ValueError
  ELSE HexValue(s, 0)

(***************************************************************************)
(* Configuration handed to the worker by the host (BaseWorker.__init__      *)
(* sets every keyword argument as an attribute) and the class defaults      *)
(***************************************************************************)
MacA == <<"A","4",":","C","1",":","3","8",":","0","0",":","0","0",":","0","1">>

MacB == <<"a","4",":","c","1",":","3","8",":","0","0",":","0","0",":","0","2">>

NameA == <<"b","e","d","_","r","o","o","m">>

NameB == <<"d","e","n","2">>

\* devices: the configured {name: mac} dict, in its iteration order
devices == << [name |-> NameA, mac |-> MacA], [name |-> NameB, mac |-> MacB] >>

available_payload == "Online"

unavailable_payload == "Offline"

topic_prefix == "atc_thermometer"

global_topic_prefix == "home"

\* BaseWorker.format_topic('<name>/<leaf>'): '/'.join([topic_prefix, ...])
format_topic(name, leaf) == [prefix |-> topic_prefix, name |-> name, leaf |-> leaf]

\* format_prefixed_topic(name): the topic under the global prefix
format_prefixed_topic(name) ==
  [global |-> global_topic_prefix, prefix |-> topic_prefix, name |-> name]

MqttMessage(topic, payload, retain) ==
  [topic |-> topic, payload |-> payload, retain |-> retain]

(***************************************************************************)
(* AtcThermometerStatus                                                    *)
(***************************************************************************)
\* AtcThermometerStatus.__init__(worker, mac, name) at time t
AtcThermometerStatus(mac, name, t) ==
  [mac |-> lower(mac), name |-> name, available |-> FALSE,
   last_status_time |-> t, message_sent |-> TRUE]

\* a plausible slip: every call stamps the time and clears message_sent
set_status_always(status, available, t) ==
  [status EXCEPT !.available = available, !.last_status_time = t,
                 !.message_sent = FALSE]

\* set_status(available) at time t: the status object after the call
set_status(status, available, t) ==
  IF available # status.available
  THEN [status EXCEPT !.available = available, !.last_status_time = t,
                      !.message_sent = FALSE]
  ELSE status

payload(status) ==
  IF status.available THEN available_payload ELSE unavailable_payload

generate_messages(status, device) ==
  << MqttMessage(format_topic(status.name, "LWT"), payload(status), TRUE) >>

(***************************************************************************)
(* Atc_ThermometerWorker.parse_payload                                     *)
(***************************************************************************)
\* parse_payload(device, name): device is <<>> (None) or <<d>> with
\* d = [addr, valueText, rssi], valueText being str(device.getValueText(22)).
\* The result is [raised, messages]: raised when an int(..., 16) raises
\* ValueError, which parse_payload does not catch.
parse_payload(device, name) ==
  IF device = <<>> THEN [raised |-> FALSE, messages |-> <<>>]
  ELSE
    LET data_str == device[1].valueText
    IN IF Slice(data_str, 0, 4) # <<"1","a","1","8">>
       THEN [raised |-> FALSE, messages |-> <<>>]
       ELSE
         LET temp == int16(Slice(data_str, 16, 20))
             hum  == int16(Slice(data_str, 20, 22))
             batt == int16(Slice(data_str, 22, 24))
         IN IF temp = ValueError \/ hum = ValueError \/ batt = ValueError
            THEN [raised |-> TRUE, messages |-> <<>>]
            ELSE [raised |-> FALSE,
                  messages |->
                    << MqttMessage(format_topic(name, "state"),
                                   [temperature_tenths |-> temp, humidity |-> hum,
                                    battery |-> batt, rssi |-> device[1].rssi],
                                   TRUE),
                       MqttMessage(format_topic(name, "LWT"), available_payload, TRUE) >>]

(***************************************************************************)
(* Autoconfiguration                                                       *)
(***************************************************************************)
get_base_autoconf_data(key, name, deviceClass, fieldName, unit) ==
  LET properName == title(replace(name, "_", <<" ">>, -1))
  IN [tilde |-> format_prefixed_topic(name),
      state_topic |-> "~/state",
      avty_t |-> "~/LWT",
      pl_avail |-> available_payload,
      pl_not_avail |-> unavailable_payload,
      device |-> [identifiers |-> key, name |-> properName, mf |-> "Xiaomi",
                  mdl |-> "LYWSD03MMC", sw |-> "1.0"],
      device_class |-> deviceClass,
      name |-> [proper |-> properName, field |-> capitalize(fieldName)],
      uniq_id |-> [key |-> key, field |-> fieldName],
      value_template |-> [pre |-> "{{ value_json.", field |-> fieldName,
                          post |-> " | round(1) }}"],
      unit_of_measurement |-> unit]

temperatureField == <<"t","e","m","p","e","r","a","t","u","r","e">>

humidityField == <<"h","u","m","i","d","i","t","y">>

batteryField == <<"b","a","t","t","e","r","y">>

rssiField == <<"r","s","s","i">>

\* the four messages get_autoconf_data builds on a first call
autoconf_messages(key, name) ==
  << MqttMessage(format_topic(name, "temperature/config"),
       get_base_autoconf_data(key, name, "temperature", temperatureField, "°C"), TRUE),
     MqttMessage(format_topic(name, "humidity/config"),
       get_base_autoconf_data(key, name, "humidity", humidityField, "%"), TRUE),
     MqttMessage(format_topic(name, "battery/config"),
       get_base_autoconf_data(key, name, "battery", batteryField, "%"), TRUE),
     MqttMessage(format_topic(name, "rssi/config"),
       get_base_autoconf_data(key, name, "signal_strength", rssiField, "dB"), TRUE) >>

\* a plausible slip: the cache is keyed by the device name instead of the key
get_autoconf_data_by_name(cache, key, name) ==
  IF name \in cache
  THEN [isFalse |-> TRUE, messages |-> <<>>, autoconfCache |-> cache]
  ELSE [isFalse |-> FALSE, messages |-> autoconf_messages(key, name),
        autoconfCache |-> cache \cup {name}]

\* get_autoconf_data(key, name) on the cache: [isFalse, messages,
\* autoconfCache]; isFalse is the return value False
get_autoconf_data(cache, key, name) ==
  IF key \in cache
  THEN [isFalse |-> TRUE, messages |-> <<>>, autoconfCache |-> cache]
  ELSE [isFalse |-> FALSE, messages |-> autoconf_messages(key, name),
        autoconfCache |-> cache \cup {key}]

(***************************************************************************)
(* Atc_ThermometerWorker.status_update                                     *)
(***************************************************************************)
\* mac_addresses.get(mac, None) on {device.addr: device for device in found}
mac_addresses_get(found, mac) ==
  IF \E d \in found : d.addr = mac
  THEN << CHOOSE d \in found : d.addr = mac >>
  ELSE <<>>

\* status.mac.replace(':', '', 5)
uniqueId(mac) == replace(mac, ":", <<>>, 5)

\* The for loop over self.last_status from index i on. acc carries the
\* worker's state and the local ret, and records what the iterations did:
\*   exception  "none", or the exception that ended the call
\*   reached    the last index whose iteration began
\*   gen[i]     what generate_messages appended for index i
\*   parsed[i]  what parse_payload appended for index i
\*   done       the indices whose iteration ran to its end
RECURSIVE for_each_status(_, _, _, _)
for_each_status(i, acc, found, t) ==
  IF i > Len(acc.last_status) THEN acc
  ELSE
    LET device == mac_addresses_get(found, acc.last_status[i].mac)
        status == set_status(acc.last_status[i], device # <<>>, t)
        gen    == generate_messages(status, device)
        parsed == parse_payload(device, status.name)
        begun  == [acc EXCEPT !.last_status[i] = status, !.reached = i,
                              !.gen[i] = gen, !.ret = acc.ret \o gen]
    IN IF parsed.raised
       THEN [begun EXCEPT !.exception = "ValueError"]
       ELSE
         LET autoconf_data == get_autoconf_data(acc.autoconfCache, uniqueId(status.mac), status.name)
         IN for_each_status(i + 1,
              [begun EXCEPT !.parsed[i] = parsed.messages,
                            !.ret = begun.ret \o parsed.messages \o
                                    (IF autoconf_data.isFalse THEN <<>> ELSE autoconf_data.messages),
                            !.autoconfCache = autoconf_data.autoconfCache,
                            !.done = acc.done \cup {i}],
              found, t)

\* a plausible slip: the exception is logged and raised again
except_BTLEException_reraise(acc, t) == [acc EXCEPT !.exception = "BTLEException"]

\* a plausible slip: a failed scan is treated as a scan that found nothing
except_BTLEException_empty_scan(acc, t) == for_each_status(1, acc, {}, t)

\* except btle.BTLEException: log_exception(..., suppress=True), then the
\* function goes on to return ret (t: the time of the call)
except_BTLEException(acc, t) == acc

\* status_update() at time t on the statuses st and the cache, the scan
\* giving sc = [raised, found]: raised when scanner.scan raises
\* BTLEException, found the set of discovered devices otherwise
status_update(st, cache, sc, t) ==
  LET start == [last_status |-> st, autoconfCache |-> cache, ret |-> <<>>,
                exception |-> "none", reached |-> 0,
                gen |-> [i \in 1..Len(st) |-> <<>>],
                parsed |-> [i \in 1..Len(st) |-> <<>>],
                done |-> {}]
  IN IF sc.raised THEN except_BTLEException(start, t)
     ELSE for_each_status(1, start, sc.found, t)

(***************************************************************************)
(* Inputs: what a scan can find                                            *)
(***************************************************************************)
MacOther == <<"a","4",":","c","1",":","3","8",":","0","0",":","0","0",":","f","f">>

Advertised(T, H, B) ==
  <<"1","a","1","8">> \o <<"a","4","c","1","3","8","0","0","0","0","0","1">> \o T \o H \o B

\* 25.0 C, 50 %, 100 %
Adv25 == Advertised(<<"0","0","f","a">>, <<"3","2">>, <<"6","4">>)

\* the 16-bit two's complement of -100: -10.0 C
AdvBelowZero == Advertised(<<"f","f","9","c">>, <<"3","2">>, <<"6","4">>)

\* cut after the prefix and 6 characters
AdvCut10 == Slice(Adv25, 0, 10)

\* cut one character short: the prefix and 19 characters
AdvCut23 == Slice(Adv25, 0, 23)

AdvNonHex == Advertised(<<"0","0","z","z">>, <<"3","2">>, <<"6","4">>)

AdvOtherPrefix == <<"1","a","1","9">> \o Slice(Adv25, 4, 24)

\* str(None): the advertisement has no field 22
AdvNone == <<"N","o","n","e">>

Payloads == {Adv25, AdvBelowZero, AdvCut10, AdvCut23, AdvNonHex, AdvOtherPrefix, AdvNone}

RssiValues == {-70}

ConfiguredAddrs == {lower(devices[i].mac) : i \in 1..Len(devices)}

ScanAddrs == ConfiguredAddrs \cup {MacOther}

\* absent (<<>>) or advertising <<valueText, rssi>>
Advertisements(addr) ==
  IF addr \in ConfiguredAddrs
  THEN {<<>>} \cup {<<p, r>> : p \in Payloads, r \in RssiValues}
  ELSE {<<>>, <<Adv25, -70>>}

AllAdvertisements == UNION {Advertisements(a) : a \in ScanAddrs}

Found(f) ==
  {[addr |-> a, valueText |-> f[a][1], rssi |-> f[a][2]] : a \in {x \in ScanAddrs : f[x] # <<>>}}

Scans ==
  {[raised |-> TRUE, found |-> {}]} \cup
  {[raised |-> FALSE, found |-> Found(f)] :
     f \in {g \in [ScanAddrs -> AllAdvertisements] : \A a \in ScanAddrs : g[a] \in Advertisements(a)}}

\* keys and names for direct calls of get_autoconf_data
CallKeys == {uniqueId(lower(MacA)), uniqueId(lower(MacB)), uniqueId(MacOther), <<"k">>}

CallNames == {NameA, NameB, <<"h","a","l","l">>}

(***************************************************************************)
(* State                                                                   *)
(***************************************************************************)
VARIABLES
  last_status,    \* the worker's list of AtcThermometerStatus
  autoconfCache,  \* the worker's autoconfCache (its keys)
  now,            \* time.time()
  scan,           \* observed: the scan of the last status_update call
  outcome,        \* observed: "init", or how the last call ended: "returned", "raised"
  ret,            \* observed: the batch the last call returned (<<>> if it raised)
  reached,        \* observed: last index whose loop iteration began in the last call
  gen,            \* observed: per index, what generate_messages appended in the last call
  parsed,         \* observed: per index, what parse_payload appended in the last call
  prevFailed,     \* observed: the call before the last one had a failed scan
  handed,         \* observed: keys whose four config messages were in a returned batch
  confBatches,    \* observed: per index, number of returned batches with its config messages
  seen,           \* observed: indices whose loop iteration has ever run to its end
  call            \* observed: the last direct call of get_autoconf_data

vars == <<last_status, autoconfCache, now, scan, outcome, ret, reached, gen, parsed,
          prevFailed, handed, confBatches, seen, call>>

Indices == 1..Len(devices)

ConfigLeaves == {"temperature/config", "humidity/config", "battery/config", "rssi/config"}

\* the batch holds the four config messages of the device named name
HasConfig(batch, name) ==
  \A leaf \in ConfigLeaves :
    \E j \in 1..Len(batch) : batch[j].topic = format_topic(name, leaf)

\* the batch holds four config messages whose device identifier is key
HasConfigOfKey(batch, key) ==
  \A leaf \in ConfigLeaves :
    \E j \in 1..Len(batch) :
      /\ batch[j].topic.leaf = leaf
      /\ batch[j].payload.device.identifiers = key

\* first: the <<key, name>> of every direct call so far that returned messages
NoCall ==
  [key |-> <<>>, name |-> <<>>, before |-> {}, isFalse |-> FALSE, messages |-> <<>>,
   made |-> FALSE, first |-> {}]

Init ==
  /\ last_status = [i \in Indices |-> AtcThermometerStatus(devices[i].mac, devices[i].name, 0)]
  /\ autoconfCache = {}
  /\ now = 0
  /\ scan = [raised |-> FALSE, found |-> {}]
  /\ outcome = "init"
  /\ ret = <<>>
  /\ reached = 0
  /\ gen = [i \in Indices |-> <<>>]
  /\ parsed = [i \in Indices |-> <<>>]
  /\ prevFailed = FALSE
  /\ handed = {}
  /\ confBatches = [i \in Indices |-> 0]
  /\ seen = {}
  /\ call = NoCall

\* The host calls status_update(): one update cycle.
StatusUpdate ==
  /\ now < MaxTime
  /\ \E sc \in Scans :
       \E r \in {status_update(last_status, autoconfCache, sc, now + 1)} :
         \E batch \in {IF r.exception = "none" THEN r.ret ELSE <<>>} :
          /\ now' = now + 1
          /\ last_status' = r.last_status
          /\ autoconfCache' = r.autoconfCache
          /\ scan' = sc
          /\ outcome' = IF r.exception = "none" THEN "returned" ELSE "raised"
          /\ ret' = batch
          /\ reached' = r.reached
          /\ gen' = r.gen
          /\ parsed' = r.parsed
          /\ prevFailed' = (outcome # "init" /\ scan.raised)
          /\ handed' = handed \cup {uniqueId(last_status[i].mac) : i \in {j \in Indices : HasConfigOfKey(batch, uniqueId(last_status[j].mac))}}
          /\ confBatches' = [i \in Indices |-> confBatches[i] + (IF HasConfig(batch, last_status[i].name) THEN 1 ELSE 0)]
          /\ seen' = seen \cup r.done
          /\ call' = call

\* A direct call get_autoconf_data(key, name).
CallGetAutoconfData ==
  \E key \in CallKeys, name \in CallNames :
    LET r == get_autoconf_data(autoconfCache, key, name)
    IN /\ autoconfCache' = r.autoconfCache
       /\ call' = [key |-> key, name |-> name, before |-> autoconfCache,
                   isFalse |-> r.isFalse, messages |-> r.messages, made |-> TRUE,
                   first |-> IF r.isFalse THEN call.first
                             ELSE call.first \cup {<<key, name>>}]
       /\ UNCHANGED <<last_status, now, scan, outcome, ret, reached, gen, parsed,
                      prevFailed, handed, confBatches, seen>>

Next == StatusUpdate

Spec == Init /\ [][Next]_vars

NextAutoconf == CallGetAutoconfData

SpecAutoconf == Init /\ [][NextAutoconf]_vars

(***************************************************************************)
(* Properties                                                              *)
(***************************************************************************)
\* the last call was a status_update whose scan succeeded
ScanSucceeded == outcome # "init" /\ ~scan.raised

\* the last call was a status_update whose scan raised BTLEException
ScanFailed == outcome # "init" /\ scan.raised

\* the lowercased configured MAC of index i is among the addresses found
Present(i) == \E d \in scan.found : d.addr = lower(devices[i].mac)

\* the advertisement text found for index i (when Present(i))
ValueTextOf(i) == (CHOOSE d \in scan.found : d.addr = lower(devices[i].mac)).valueText

\* m is the retained message pl on the <name>/LWT topic
IsLWT(m, name, pl) ==
  /\ m.topic = format_topic(name, "LWT")
  /\ m.retain
  /\ m.payload = pl

\* ms is a <name>/state message followed by an online <name>/LWT message
IsStateAndOnline(ms, name) ==
  /\ Len(ms) = 2
  /\ ms[1].topic = format_topic(name, "state")
  /\ ms[1].retain
  /\ IsLWT(ms[2], name, available_payload)

AllHex(s) == \A k \in 1..Len(s) : HexDigit(s[k]) >= 0

HasPrefix1a18(v) == Len(v) >= 4 /\ SubSeq(v, 1, 4) = <<"1","a","1","8">>

\* '1a18' + 12 hex + 4 hex + 2 hex + 2 hex
WellFormed(v) == Len(v) = 24 /\ HasPrefix1a18(v) /\ AllHex(v)

\* wrong prefix, or the prefix followed by fewer than 20 hex characters or by
\* characters that are not hex
Malformed(v) == ~HasPrefix1a18(v) \/ Len(v) < 24 \/ ~AllHex(v)

\* an unsigned 16-bit value read as a signed one
Signed16(u) == IF u >= 32768 THEN u - 65536 ELSE u

\* C1: when the scan raises BTLEException the cycle returns an empty batch
\* and no exception reaches the host; the call after a failed cycle runs the
\* loop again (it begins with the first device, and when it returns it has
\* gone through every device and its batch holds a message for each).
C1_FailedScanReturnsEmpty ==
  /\ ScanFailed => (outcome = "returned" /\ ret = <<>> /\ reached = 0)
  /\ (prevFailed /\ ScanSucceeded) =>
       /\ reached >= 1
       /\ outcome = "returned" => (reached = Len(devices) /\ Len(ret) >= Len(devices))

\* a failed cycle was followed by a cycle that returned a batch
C1_Witness ==
  /\ prevFailed
  /\ ScanSucceeded
  /\ outcome = "returned"
  /\ Len(ret) >= Len(devices)

\* C2: in every cycle whose scan succeeds, generate_messages contributes for
\* every configured device exactly one retained <name>/LWT message, online
\* if the device's MAC was found and offline otherwise.
C2_OneLWTPerDevice ==
  ScanSucceeded =>
    \A i \in Indices :
      /\ Len(gen[i]) = 1
      /\ IsLWT(gen[i][1], devices[i].name,
               IF Present(i) THEN available_payload ELSE unavailable_payload)

\* C3: the first get_autoconf_data call for a key returns the four config
\* messages (temperature, humidity, battery, rssi) and adds the key to the
\* cache; a later call with that key returns False whatever the name, and
\* the cache keeps every key it had.
C3_AutoconfOncePerKey ==
  call.made =>
    IF call.key \in call.before
    THEN /\ call.isFalse
         /\ call.messages = <<>>
         /\ autoconfCache = call.before
    ELSE /\ ~call.isFalse
         /\ Len(call.messages) = 4
         /\ \A k \in 1..4 :
              /\ call.messages[k].topic =
                   format_topic(call.name,
                     <<"temperature/config", "humidity/config", "battery/config", "rssi/config">>[k])
              /\ call.messages[k].payload.device.identifiers = call.key
              /\ call.messages[k].payload.uniq_id.field =
                   <<temperatureField, humidityField, batteryField, rssiField>>[k]
              /\ call.messages[k].retain
         /\ autoconfCache = call.before \cup {call.key}

\* a call returned False for a key first used under another name
C3_Witness ==
  /\ call.made
  /\ call.isFalse
  /\ \E p \in call.first : p[1] = call.key /\ p[2] # call.name

\* C4: once a device has been through an update cycle, its four config
\* messages have appeared in exactly one returned batch (that cycle's), and
\* before that in none.
C4_ConfigInFirstBatchOnly ==
  \A i \in Indices :
    IF i \in seen THEN confBatches[i] = 1 ELSE confBatches[i] = 0

\* C5: for a well-formed payload the state message reports temperature =
\* signed 16-bit value of T / 10, humidity = H and battery = B.
C5_SignedTemperature ==
  \A i \in Indices :
    (ScanSucceeded /\ i <= reached /\ Present(i) /\ WellFormed(ValueTextOf(i))) =>
      /\ Len(parsed[i]) = 2
      /\ parsed[i][1].payload.temperature_tenths =
           Signed16(HexValue(SubSeq(ValueTextOf(i), 17, 20), 0))
      /\ parsed[i][1].payload.humidity = HexValue(SubSeq(ValueTextOf(i), 21, 22), 0)
      /\ parsed[i][1].payload.battery = HexValue(SubSeq(ValueTextOf(i), 23, 24), 0)

\* C6: a malformed payload is ignored: the parser contributes nothing for
\* it and nothing is raised, so the cycle returns its batch.
C6_MalformedIgnored ==
  /\ outcome # "raised"
  /\ \A i \in Indices :
       (ScanSucceeded /\ i <= reached /\ Present(i) /\ Malformed(ValueTextOf(i))) =>
         parsed[i] = <<>>

\* C7: set_status(a) at time t changes the object iff a differs from
\* available: then available = a, last_status_time = t, message_sent =
\* FALSE, and otherwise nothing changes. (A status object is touched only by
\* the set_status call of its loop iteration.)
C7_SetStatusFrame ==
  [][ \A i \in Indices :
        IF now' # now /\ ~scan'.raised /\ i <= reached'
        THEN LET a == \E d \in scan'.found : d.addr = last_status[i].mac
             IN IF a # last_status[i].available
                THEN /\ last_status'[i].available = a
                     /\ last_status'[i].last_status_time = now'
                     /\ last_status'[i].message_sent = FALSE
                     /\ last_status'[i].mac = last_status[i].mac
                     /\ last_status'[i].name = last_status[i].name
                ELSE last_status'[i] = last_status[i]
        ELSE last_status'[i] = last_status[i] ]_vars

\* in the last cycle one device changed availability and another, already
\* available since an earlier cycle, was set available again
C7_Witness ==
  \E i, j \in Indices :
    /\ ScanSucceeded
    /\ i <= reached /\ j <= reached
    /\ last_status[i].last_status_time = now
    /\ ~last_status[i].message_sent
    /\ Present(j)
    /\ last_status[j].available
    /\ last_status[j].last_status_time < now

\* C8: in a cycle whose scan succeeds the parser contributes a state message
\* and an online LWT message for a device iff the device was found and its
\* payload starts with '1a18'; an absent device contributes exactly one
\* message, the offline LWT.
C8_ParserContributesIffPrefix ==
  ScanSucceeded =>
    \A i \in Indices :
      /\ IsStateAndOnline(parsed[i], devices[i].name)
           <=> (Present(i) /\ HasPrefix1a18(ValueTextOf(i)))
      /\ ~Present(i) =>
           /\ Len(gen[i] \o parsed[i]) = 1
           /\ IsLWT((gen[i] \o parsed[i])[1], devices[i].name, unavailable_payload)

\* C9: every key in the autoconfig cache has had its four config messages
\* in a batch that status_update returned.
C9_CachedKeysWereHanded == autoconfCache \subseteq handed

\* C10: a cycle whose scan raises leaves every status object and the
\* autoconfig cache as they were.
C10_FailedScanChangesNothing ==
  [][ (now' # now /\ scan'.raised) =>
        (last_status' = last_status /\ autoconfCache' = autoconfCache) ]_vars

\* a scan failed while a device was available and the cache held a key
C10_Witness ==
  /\ ScanFailed
  /\ autoconfCache # {}
  /\ \E i \in Indices : last_status[i].available

====
